---- MODULE Spec2Model ----
(***************************************************************************)
(* A model of the object store of codecrafters-git-rust: hashing,          *)
(* compression, the object files under .git/objects, the tree codec, the   *)
(* tree builder, the commit builder and the commands that call them.       *)
(* Byte strings are sequences of numbers 0..255; text is its ASCII bytes.  *)
(***************************************************************************)
EXTENDS Integers, Sequences, FiniteSets, TLC

VARIABLES
    layout,     \* which of .git, .git/objects, .git/refs, .git/HEAD exist
    objDirs,    \* the two-character directories under .git/objects
    objFiles,   \* object path |-> the bytes of the file at that path
    worktree,   \* the working directory: path |-> node
    result,     \* what the last operation returned / printed
    putLog,     \* history: the payloads written and the hashes returned
    walk,       \* the call stack of a write_tree run in progress
    procs,      \* two concurrent writers of objects (SpecConc)
    codec       \* the last application of a pure codec function (SpecCodec)

vars == <<layout, objDirs, objFiles, worktree, result, putLog, walk, procs, codec>>

----------------------------------------------------------------------------
(* Bounds of the model *)

MaxPayloadLen == 1
MaxPuts == 2
MaxLost == 2
MaxEntries == 2
MaxCommits == 1

----------------------------------------------------------------------------
(* Program constants *)

SHA1_LENGTH == 40
SHA1_BYTES == 20

----------------------------------------------------------------------------
(* Bytes and text *)

RECURSIVE SeqsUpTo(_, _)
SeqsUpTo(S, n) ==
    IF n = 0 THEN {<<>>}
    ELSE LET shorter == SeqsUpTo(S, n - 1)
         IN  shorter \cup {Append(s, x) : s \in {t \in shorter : Len(t) = n - 1}, x \in S}

\* The position of the first element of s equal to b, 0 when there is none
\* (Iterator::position, with None as 0 and Some(i) as i + 1).
Position(s, b) ==
    LET hits == {i \in 1..Len(s) : s[i] = b}
    IN  IF hits = {} THEN 0 ELSE CHOOSE i \in hits : \A j \in hits : i <= j

\* format!("{}", n) of an unsigned number: its decimal digits.
RECURSIVE Dec(_)
Dec(n) == IF n < 10 THEN <<48 + n>> ELSE Dec(n \div 10) \o <<48 + (n % 10)>>

IsDigit(c) == c >= 48 /\ c <= 57

\* str::parse::<usize> of a digit string (only used on strings of digits).
RECURSIVE ParseDec(_)
ParseDec(s) ==
    IF s = <<>> THEN 0
    ELSE ParseDec(SubSeq(s, 1, Len(s) - 1)) * 10 + (s[Len(s)] - 48)

\* Byte-wise lexicographic order of two byte strings (Ord for String / [u8]).
RECURSIVE LexLess(_, _)
LexLess(a, b) ==
    IF b = <<>> THEN FALSE
    ELSE IF a = <<>> THEN TRUE
    ELSE IF Head(a) # Head(b) THEN Head(a) < Head(b)
    ELSE LexLess(Tail(a), Tail(b))

LexLeq(a, b) == a = b \/ LexLess(a, b)

----------------------------------------------------------------------------
(* Results: Ok(value), Err(kind), or a panic of the process *)

Ok(v) == [st |-> "ok", kind |-> "", val |-> v]
Err(k) == [st |-> "err", kind |-> k, val |-> <<>>]
Panic == [st |-> "panic", kind |-> "slice index", val |-> <<>>]

----------------------------------------------------------------------------
(* Hasher: hash.rs *)

\* Lower-case hex digit of a nibble ({:x}).
HexDigit(n) == IF n < 10 THEN 48 + n ELSE 87 + n

\* c.is_ascii_hexdigit()
IsHexDigit(c) == (c >= 48 /\ c <= 57) \/ (c >= 97 /\ c <= 102) \/ (c >= 65 /\ c <= 70)

\* The value of a hex digit, either case (u8::from_str_radix(.., 16)).
HexVal(c) == IF c <= 57 THEN c - 48 ELSE IF c >= 97 THEN c - 87 ELSE c - 55

\* format!("{b:02x}") over the bytes of a digest.
ToHex(bytes) ==
    [k \in 1..(2 * Len(bytes)) |->
        IF k % 2 = 1 THEN HexDigit(bytes[(k + 1) \div 2] \div 16)
        ELSE HexDigit(bytes[k \div 2] % 16)]

validate_sha1(hash) ==
    IF Len(hash) # SHA1_LENGTH THEN Err("Format")
    ELSE IF \E i \in 1..Len(hash) : ~IsHexDigit(hash[i]) THEN Err("Format")
    ELSE Ok(<<>>)

hex_to_bytes(hex) ==
    IF validate_sha1(hex).st # "ok" THEN Err("Format")
    ELSE Ok([i \in 1..(Len(hex) \div 2) |->
                HexVal(hex[2 * i - 1]) * 16 + HexVal(hex[2 * i])])

\* A running sum over content[lo..hi]: <<h, p>> with
\*   h = the sum of (content[j] + 1) * base^(hi - j), p = base^(hi - lo + 1),
\* both modulo m (m * m fits the 32-bit integers of the checker).  Two halves
\* combine, so the depth of the evaluation is the logarithm of the length.
RECURSIVE PolySum(_, _, _, _, _)
PolySum(content, lo, hi, base, m) ==
    IF lo > hi THEN <<0, 1>>
    ELSE IF lo = hi THEN <<(content[lo] + 1) % m, base % m>>
    ELSE LET mid == (lo + hi) \div 2
             left == PolySum(content, lo, mid, base, m)
             right == PolySum(content, mid + 1, hi, base, m)
         IN  <<(left[1] * right[2] + right[1]) % m, (left[2] * right[2]) % m>>

\* Sha1::update + finalize.  SHA-1 itself is replaced by a digest made of two
\* running sums over the whole input and its length, spread over 20 bytes;
\* NoCollision checks that it separates the payloads of the model, as SHA-1
\* does the program's.
Sha1Digest(content) ==
    LET a == PolySum(content, 1, Len(content), 31, 46337)[1]
        b == PolySum(content, 1, Len(content), 257, 46327)[1]
    IN  [i \in 1..SHA1_BYTES |->
            CASE i = 1 -> a % 256
              [] i = 2 -> a \div 256
              [] i = 3 -> b % 256
              [] i = 4 -> b \div 256
              [] i = 5 -> Len(content) % 256
              [] OTHER -> (a * i + b * (i + 3) + i * i) % 256]

calculate_sha1(content) == ToHex(Sha1Digest(content))

calculate_object_hash(content) == calculate_sha1(content)

----------------------------------------------------------------------------
(* Compression layer: ZlibEncoder / ZlibDecoder as used by git_objects.rs *)

\* The check value that ends a zlib stream (Adler-32 in zlib; two bytes here).
Checksum(content) ==
    <<PolySum(content, 1, Len(content), 3, 251)[1], Len(content) % 256>>

\* The zlib container: the two header bytes 0x78 0x9c, the data, the check value.
Compress(content) == <<120, 156>> \o content \o Checksum(content)

Decompress(bytes) ==
    IF Len(bytes) < 4 THEN Err("Corruption")
    ELSE IF bytes[1] # 120 \/ bytes[2] # 156 THEN Err("Corruption")
    ELSE LET body == SubSeq(bytes, 3, Len(bytes) - 2)
         IN  IF SubSeq(bytes, Len(bytes) - 1, Len(bytes)) = Checksum(body)
             THEN Ok(body)
             ELSE Err("Corruption")

----------------------------------------------------------------------------
(* Object store: path.rs, git_objects.rs *)

\* .git/objects/<hash[..2]>/<hash[2..]>, as the pair <<directory, file name>>.
\* It is only called on strings of at least two bytes: see read_git_object.
git_object_path(object_hash) ==
    <<SubSeq(object_hash, 1, 2), SubSeq(object_hash, 3, Len(object_hash))>>

\* The part of the file system the store touches, as one value.
FS == [layout |-> layout, objDirs |-> objDirs, objFiles |-> objFiles]

SetFS(fs) ==
    /\ layout' = fs.layout
    /\ objDirs' = fs.objDirs
    /\ objFiles' = fs.objFiles

\* fs::create_dir instead of create_dir_all: an existing directory is an error.
create_dir_strict(fs, dir) ==
    IF dir \in fs.objDirs THEN [fs |-> fs, out |-> Err("IO")]
    ELSE [fs |-> [fs EXCEPT !.layout = @ \cup {".git", ".git/objects"},
                            !.objDirs = @ \cup {dir}],
          out |-> Ok(<<>>)]

\* fs::create_dir_all(".git/objects/<dir>"): every missing component is
\* created, and a component that exists (also one a concurrent call has just
\* created) is no error.
create_dir_all(fs, dir) ==
    [fs |-> [fs EXCEPT !.layout = @ \cup {".git", ".git/objects"},
                       !.objDirs = @ \cup {dir}],
     out |-> Ok(<<>>)]

\* The first half of fs::write: File::create opens the file, creating it or
\* truncating it to no bytes.  NotFound when the directory is missing.
file_create(fs, path) ==
    IF path[1] \notin fs.objDirs THEN [fs |-> fs, out |-> Err("IO")]
    ELSE [fs |-> [fs EXCEPT !.objFiles =
                     [p \in DOMAIN @ \cup {path} |-> IF p = path THEN <<>> ELSE @[p]]],
          out |-> Ok(<<>>)]

\* The second half of fs::write: write_all of the bytes from offset 0 into
\* the open file (which a concurrent writer may have filled or truncated).
file_write_all(fs, path, bytes) ==
    [fs |-> [fs EXCEPT !.objFiles =
                [p \in DOMAIN @ \cup {path} |->
                    IF p = path
                    THEN IF p \in DOMAIN @ /\ Len(@[p]) > Len(bytes)
                         THEN bytes \o SubSeq(@[p], Len(bytes) + 1, Len(@[p]))
                         ELSE bytes
                    ELSE @[p]]],
     out |-> Ok(<<>>)]

\* fs::write(path, bytes) = File::create then write_all.
fs_write(fs, path, bytes) ==
    LET opened == file_create(fs, path)
    IN  IF opened.out.st # "ok" THEN opened
        ELSE file_write_all(opened.fs, path, bytes)

\* A writer that refuses to overwrite an object file (OpenOptions::create_new).
write_git_object_create_new(fs, content) ==
    LET hash_hex == calculate_sha1(content)
        made == create_dir_all(fs, SubSeq(hash_hex, 1, 2))
        file_path == git_object_path(hash_hex)
    IN  IF file_path \in DOMAIN fs.objFiles THEN [fs |-> made.fs, out |-> Err("IO")]
        ELSE [fs |-> fs_write(made.fs, file_path, Compress(content)).fs,
              out |-> Ok(hash_hex)]

\* A writer that stores the payload without compressing it.
write_git_object_raw(fs, content) ==
    LET hash_hex == calculate_sha1(content)
        made == create_dir_all(fs, SubSeq(hash_hex, 1, 2))
    IN  [fs |-> fs_write(made.fs, git_object_path(hash_hex), content).fs,
         out |-> Ok(hash_hex)]

\* write_git_object: hash, compress, create the directory, write the file.
\* Returns the file system after the call and Ok(hash) or the error.
write_git_object(fs, content) ==
    LET hash_hex == calculate_sha1(content)
        compressed == Compress(content)
        made == create_dir_all(fs, SubSeq(hash_hex, 1, 2))
    IN  IF made.out.st # "ok" THEN [fs |-> made.fs, out |-> Err("IO")]
        ELSE LET file_path == git_object_path(hash_hex)
                 written == fs_write(made.fs, file_path, compressed)
             IN  IF written.out.st # "ok" THEN [fs |-> written.fs, out |-> Err("IO")]
                 ELSE [fs |-> written.fs, out |-> Ok(hash_hex)]

\* A reader that hands back the raw file when it cannot be decompressed.
read_git_object_lenient(files, object_hash) ==
    IF Len(object_hash) < 2 THEN Panic
    ELSE LET file_path == git_object_path(object_hash)
         IN  IF file_path \notin DOMAIN files THEN Err("NotFound")
             ELSE IF Decompress(files[file_path]).st = "ok"
                  THEN Decompress(files[file_path])
                  ELSE Ok(files[file_path])

\* read_git_object: &object_hash[..2] panics on a string shorter than two
\* bytes; fs::read fails when there is no file at the path; read_to_end fails
\* when the bytes are no zlib stream.
read_git_object(files, object_hash) ==
    IF Len(object_hash) < 2 THEN Panic
    ELSE LET file_path == git_object_path(object_hash)
         IN  IF file_path \notin DOMAIN files THEN Err("NotFound")
             ELSE Decompress(files[file_path])

----------------------------------------------------------------------------
(* Object codec and tree codec: blob.rs, tree.rs, commands/cat_file.rs *)

\* std::str::from_utf8 on the bytes of the model: ASCII bytes are UTF-8, and
\* the one byte above 127 the model uses, 0xff, never occurs in UTF-8.
IsUtf8(bytes) == \A i \in 1..Len(bytes) : bytes[i] < 128

\* FileMode: the four modes of a tree entry and their text.
FileModes == {"RegularFile", "ExecutableFile", "SymbolicLink", "Directory"}

FileMode_as_str(mode) ==
    CASE mode = "RegularFile" -> <<49, 48, 48, 54, 52, 52>>
      [] mode = "ExecutableFile" -> <<49, 48, 48, 55, 53, 53>>
      [] mode = "SymbolicLink" -> <<49, 50, 48, 48, 48, 48>>
      [] mode = "Directory" -> <<52, 48, 48, 48, 48>>

FileMode_from_str(mode_str) ==
    IF \E m \in FileModes : FileMode_as_str(m) = mode_str
    THEN Ok(CHOOSE m \in FileModes : FileMode_as_str(m) = mode_str)
    ELSE Err("Format")

FileMode_to_object_type(mode) == IF mode = "Directory" THEN "tree" ELSE "blob"

\* create_blob_object: "blob <len>\0" and the file's bytes.
create_blob_object(file_content) ==
    <<98, 108, 111, 98, 32>> \o Dec(Len(file_content)) \o <<0>> \o file_content

\* No sort: the entries stay in the order read_dir yielded them.
SortByName_skipped(entries) == entries

\* entries.sort_by(|a, b| a.1.cmp(&b.1)): a stable sort by name, as the
\* insertion of each entry after the entries that are not greater.
RECURSIVE SortByName(_)
SortByName(entries) ==
    IF entries = <<>> THEN <<>>
    ELSE LET sorted == SortByName(SubSeq(entries, 1, Len(entries) - 1))
             last == entries[Len(entries)]
             k == Cardinality({i \in 1..Len(sorted) : LexLeq(sorted[i][2], last[2])})
         IN  SubSeq(sorted, 1, k) \o <<last>> \o SubSeq(sorted, k + 1, Len(sorted))

\* The first loop of build_tree_content: the size of the body.
RECURSIVE TreeSize(_)
TreeSize(entries) ==
    IF entries = <<>> THEN 0
    ELSE Len(FileMode_as_str(Head(entries)[1])) + 1 + Len(Head(entries)[2]) + 1
            + SHA1_BYTES + TreeSize(Tail(entries))

\* The second loop of build_tree_content: the bytes of the entries, or the
\* error of the first hex_to_bytes that fails.
RECURSIVE TreeBody(_)
TreeBody(entries) ==
    IF entries = <<>> THEN Ok(<<>>)
    ELSE LET raw == hex_to_bytes(Head(entries)[3])
             rest == TreeBody(Tail(entries))
         IN  IF raw.st # "ok" THEN raw
             ELSE IF rest.st # "ok" THEN rest
             ELSE Ok(FileMode_as_str(Head(entries)[1]) \o <<32>> \o Head(entries)[2]
                        \o <<0>> \o raw.val \o rest.val)

\* A size that leaves out the null byte after each name.
RECURSIVE TreeSizeNoNull(_)
TreeSizeNoNull(entries) ==
    IF entries = <<>> THEN 0
    ELSE Len(FileMode_as_str(Head(entries)[1])) + 1 + Len(Head(entries)[2])
            + SHA1_BYTES + TreeSizeNoNull(Tail(entries))

build_tree_content_short(entries) ==
    LET body == TreeBody(entries)
    IN  IF body.st # "ok" THEN body
        ELSE Ok(<<116, 114, 101, 101, 32>> \o Dec(TreeSizeNoNull(entries)) \o <<0>>
                   \o body.val)

\* A codec that sorts the entries it is given.
build_tree_content_sorting(entries) ==
    LET body == TreeBody(SortByName(entries))
    IN  IF body.st # "ok" THEN body
        ELSE Ok(<<116, 114, 101, 101, 32>> \o Dec(TreeSize(entries)) \o <<0>> \o body.val)

\* build_tree_content: "tree <size>\0" and, per entry in the order given,
\* <mode> <name>\0<20 bytes>.  An entry is <<mode, name, hash>>.
build_tree_content(entries) ==
    LET body == TreeBody(entries)
    IN  IF body.st # "ok" THEN body
        ELSE Ok(<<116, 114, 101, 101, 32>> \o Dec(TreeSize(entries)) \o <<0>> \o body.val)

\* The while loop of parse_tree_entries; pos is the index of the next byte
\* (the code's pos + 1).
RECURSIVE ParseEntriesFrom(_, _, _)
ParseEntriesFrom(content, pos, entries) ==
    IF pos > Len(content) THEN Ok(entries)
    ELSE
    LET space_pos == Position(SubSeq(content, pos, Len(content)), 32)
        mode_str == SubSeq(content, pos, pos + space_pos - 2)
        pos2 == pos + space_pos
        null_pos == Position(SubSeq(content, pos2, Len(content)), 0)
        name == SubSeq(content, pos2, pos2 + null_pos - 2)
        pos3 == pos2 + null_pos
        sha1_hex == ToHex(SubSeq(content, pos3, pos3 + SHA1_BYTES - 1))
        mode == FileMode_from_str(mode_str)
    IN  IF space_pos = 0 THEN Err("Format")
        ELSE IF ~IsUtf8(mode_str) THEN Err("Format")
        ELSE IF null_pos = 0 THEN Err("Format")
        ELSE IF ~IsUtf8(name) THEN Err("Format")
        ELSE IF (pos3 - 1) + SHA1_BYTES > Len(content) THEN Err("Format")
        ELSE IF mode.st # "ok" THEN Err("Format")
        ELSE ParseEntriesFrom(content, pos3 + SHA1_BYTES,
                 Append(entries, [mode |-> mode.val, name |-> name, sha1 |-> sha1_hex,
                                  object_type |-> FileMode_to_object_type(mode.val)]))

\* parse_tree_entries: skip everything up to the first null byte, then read
\* entries until the input ends.
parse_tree_entries(content) ==
    LET null_pos == Position(content, 0)
    IN  IF null_pos = 0 THEN Err("Format")
        ELSE ParseEntriesFrom(content, null_pos + 1, <<>>)

\* char::is_whitespace on ASCII: tab, LF, VT, FF, CR, space.
IsWhitespace(c) == c \in {9, 10, 11, 12, 13, 32}

\* str::trim_end
RECURSIVE TrimEnd(_)
TrimEnd(s) ==
    IF s = <<>> THEN <<>>
    ELSE IF IsWhitespace(s[Len(s)]) THEN TrimEnd(SubSeq(s, 1, Len(s) - 1))
    ELSE s

\* cat_file.rs lines 9-16, what is printed for a fetched object: the bytes
\* must be UTF-8; the text between the first null byte and the second (or the
\* end), without its trailing whitespace.
cat_file_print(content) ==
    IF ~IsUtf8(content) THEN Err("Format")
    ELSE LET first == Position(content, 0)
             after == SubSeq(content, first + 1, Len(content))
             second == Position(after, 0)
         IN  IF first = 0 THEN Err("Format")
             ELSE Ok(TrimEnd(IF second = 0 THEN after
                             ELSE SubSeq(after, 1, second - 1)))

----------------------------------------------------------------------------
(* State *)

NoResult == [op |-> "none", arg |-> <<>>, out |-> Ok(<<>>)]

EmptyFiles == [p \in {} |-> <<>>]

InitStore ==
    /\ layout = {}
    /\ objDirs = {}
    /\ objFiles = EmptyFiles
    /\ worktree = EmptyFiles
    /\ result = NoResult
    /\ putLog = {}
    /\ walk = <<>>
    /\ procs = <<>>
    /\ codec = NoResult

\* commands/init.rs: create_dir(".git") fails when .git exists (also when an
\* earlier write has created it); otherwise the three directories and HEAD.
InitRepo ==
    /\ IF ".git" \in layout
       THEN /\ result' = [op |-> "init", arg |-> <<>>, out |-> Err("IO")]
            /\ UNCHANGED layout
       ELSE /\ result' = [op |-> "init", arg |-> <<>>, out |-> Ok(<<>>)]
            /\ layout' = {".git", ".git/objects", ".git/refs", ".git/HEAD"}
    /\ UNCHANGED <<objDirs, objFiles, worktree, putLog, walk, procs, codec>>

----------------------------------------------------------------------------
(* The store on its own: put and get of arbitrary payloads (SpecStore) *)

PayloadBytes == {0, 97}

Payloads == SeqsUpTo(PayloadBytes, MaxPayloadLen)

\* The strings handed to read_git_object: the fingerprint of every payload
\* of at most one byte, stored or not, and one string too short to be a fingerprint.
Probes == {calculate_sha1(p) : p \in {q \in Payloads : Len(q) <= 1}} \cup {<<97>>}

Logged(content) == \E e \in putLog : e.payload = content

\* write_git_object called on its own.  result.repeat records whether the
\* same bytes had been written by an earlier call.
Put(content) ==
    /\ Logged(content) \/ Cardinality(putLog) < MaxPuts
    /\ LET w == write_git_object(FS, content)
       IN  /\ SetFS(w.fs)
           /\ result' = [op |-> "write_git_object", arg |-> content, out |-> w.out,
                         repeat |-> Logged(content)]
           /\ putLog' = IF w.out.st = "ok"
                        THEN putLog \cup {[payload |-> content, hash |-> w.out.val]}
                        ELSE putLog
    /\ UNCHANGED <<worktree, walk, procs, codec>>

Get(object_hash) ==
    /\ result' = [op |-> "read_git_object", arg |-> object_hash,
                  out |-> read_git_object(objFiles, object_hash)]
    /\ UNCHANGED <<layout, objDirs, objFiles, worktree, putLog, walk, procs, codec>>

NextStore ==
    \/ InitRepo
    \/ \E content \in Payloads : Put(content)
    \/ \E object_hash \in Probes : Get(object_hash)

SpecStore == InitStore /\ [][NextStore]_vars

----------------------------------------------------------------------------
(* The store with a file system that can lose the tail of a file (SpecFault) *)

\* A crash in the middle of a write, or damage from outside the program,
\* leaves an object file without its last `lost` bytes.  One file is damaged
\* at a time: the next damage comes after a put has rewritten the file.
Damage(path, lost) ==
    /\ path \in DOMAIN objFiles
    /\ \A e \in putLog : objFiles[git_object_path(e.hash)] = Compress(e.payload)
    /\ lost <= Len(objFiles[path])
    /\ objFiles' = [objFiles EXCEPT ![path] = SubSeq(@, 1, Len(@) - lost)]
    /\ UNCHANGED <<layout, objDirs, worktree, result, putLog, walk, procs, codec>>

NextFault ==
    \/ NextStore
    \/ \E path \in DOMAIN objFiles : \E lost \in 1..MaxLost : Damage(path, lost)

SpecFault == InitStore /\ [][NextFault]_vars

----------------------------------------------------------------------------
(* Properties of the store *)

\* The digest separates the payloads that were written.
NoCollision ==
    \A e1, e2 \in putLog : e1.hash = e2.hash => e1.payload = e2.payload

\* C1: every payload that was put is read back exactly from the fingerprint
\* its put returned (the empty payload too), by the operator and by every Get
\* the program ran, and its file is at objects/<first 2 hex>/<other 38 hex>.
C1_PutThenGet ==
    /\ \A e \in putLog :
          /\ Len(e.hash) = SHA1_LENGTH
          /\ read_git_object(objFiles, e.hash) = Ok(e.payload)
          /\ SubSeq(e.hash, 1, 2) \in objDirs
          /\ <<SubSeq(e.hash, 1, 2), SubSeq(e.hash, 3, SHA1_LENGTH)>> \in DOMAIN objFiles
          /\ {".git", ".git/objects"} \subseteq layout
    /\ result.op = "read_git_object" =>
          \A e \in putLog : e.hash = result.arg => result.out = Ok(e.payload)

\* C1 witness: in an initialized repository two payloads were put, one of them
\* the empty one, and the last operation read the empty payload back.
C1_Witness ==
    /\ ".git/HEAD" \in layout
    /\ Cardinality(putLog) = 2
    /\ \E e \in putLog : /\ e.payload = <<>>
                         /\ result.op = "read_git_object"
                         /\ result.arg = e.hash
                         /\ result.out = Ok(<<>>)

\* C2: a put of bytes that were put before returns the fingerprint the first
\* put returned, returns no error, and leaves every directory and file of the
\* store as it was.
C2_PutIdempotent ==
    [][(result'.op = "write_git_object" /\ result'.repeat) =>
          /\ \E e \in putLog : e.payload = result'.arg /\ result'.out = Ok(e.hash)
          /\ layout' = layout
          /\ objDirs' = objDirs
          /\ objFiles' = objFiles
          /\ putLog' = putLog]_vars

\* C2 witness: the last operation was a successful put of bytes put before.
C2_Witness ==
    /\ result.op = "write_git_object"
    /\ result.repeat
    /\ result.out.st = "ok"
    /\ Cardinality(putLog) = 2

\* Whether the file at the path of fingerprint h is not what a put left there.
Damaged(files, log, h) ==
    /\ git_object_path(h) \in DOMAIN files
    /\ \E e \in log : e.hash = h /\ files[git_object_path(h)] # Compress(e.payload)

\* C3: reading a fingerprint that was never stored returns the error NotFound,
\* reading one whose file holds damaged bytes returns the error Corruption; in
\* both cases the call returns (no panic) and no file or directory changes.
C3_GetFailures ==
    [][(result' # result /\ result'.op = "read_git_object"
            /\ Len(result'.arg) = SHA1_LENGTH) =>
          /\ (\A e \in putLog : e.hash # result'.arg) => result'.out = Err("NotFound")
          /\ Damaged(objFiles, putLog, result'.arg) => result'.out = Err("Corruption")
          /\ result'.out.st = "err" =>
                /\ layout' = layout
                /\ objDirs' = objDirs
                /\ objFiles' = objFiles]_vars

\* C3 witness: a stored object was damaged and the read of it returned the
\* error Corruption, while another object is still intact.
C3_Witness ==
    /\ result.op = "read_git_object"
    /\ Len(result.arg) = SHA1_LENGTH
    /\ Damaged(objFiles, putLog, result.arg)
    /\ result.out = Err("Corruption")
    /\ \E e \in putLog : ~Damaged(objFiles, putLog, e.hash)

\* C3 witness of the other case: a fingerprint that was never stored.
C3_WitnessNotFound ==
    /\ result.op = "read_git_object"
    /\ Len(result.arg) = SHA1_LENGTH
    /\ putLog # {}
    /\ \A e \in putLog : e.hash # result.arg
    /\ result.out = Err("NotFound")

----------------------------------------------------------------------------
(* Two processes in write_git_object at once, with no lock (SpecConc) *)

\* Each process runs the statements of write_git_object in order; a step is
\* one call into the file system, and fs::write is two of them.
InitConc ==
    /\ layout = {".git", ".git/objects", ".git/refs", ".git/HEAD"}
    /\ objDirs = {}
    /\ objFiles = EmptyFiles
    /\ worktree = EmptyFiles
    /\ result = NoResult
    /\ putLog = {}
    /\ walk = <<>>
    /\ procs \in [1..2 -> [pc : {"hash"}, content : Payloads, hash : {<<>>},
                           out : {Ok(<<>>)}]]
    /\ codec = NoResult

ConcUnchanged == UNCHANGED <<worktree, result, putLog, walk, codec>>

\* let hash_hex = calculate_sha1(content); the compression is pure as well.
StepHash(i) ==
    /\ procs[i].pc = "hash"
    /\ procs' = [procs EXCEPT ![i].pc = "mkdir",
                              ![i].hash = calculate_sha1(procs[i].content)]
    /\ UNCHANGED <<layout, objDirs, objFiles>>
    /\ ConcUnchanged

\* fs::create_dir_all(&dir_path)?
StepMkdir(i) ==
    /\ procs[i].pc = "mkdir"
    /\ LET made == create_dir_all(FS, SubSeq(procs[i].hash, 1, 2))
       IN  /\ SetFS(made.fs)
           /\ procs' = IF made.out.st = "ok"
                       THEN [procs EXCEPT ![i].pc = "open"]
                       ELSE [procs EXCEPT ![i].pc = "done", ![i].out = Err("IO")]
    /\ ConcUnchanged

\* fs::write(&file_path, compressed)?, first half: open, create or truncate.
StepOpen(i) ==
    /\ procs[i].pc = "open"
    /\ LET opened == file_create(FS, git_object_path(procs[i].hash))
       IN  /\ SetFS(opened.fs)
           /\ procs' = IF opened.out.st = "ok"
                       THEN [procs EXCEPT ![i].pc = "write"]
                       ELSE [procs EXCEPT ![i].pc = "done", ![i].out = Err("IO")]
    /\ ConcUnchanged

\* fs::write, second half: write_all, then Ok(hash_hex).
StepWrite(i) ==
    /\ procs[i].pc = "write"
    /\ LET written == file_write_all(FS, git_object_path(procs[i].hash),
                                     Compress(procs[i].content))
       IN  /\ SetFS(written.fs)
           /\ procs' = IF written.out.st = "ok"
                       THEN [procs EXCEPT ![i].pc = "done", ![i].out = Ok(procs[i].hash)]
                       ELSE [procs EXCEPT ![i].pc = "done", ![i].out = Err("IO")]
    /\ ConcUnchanged

NextConc ==
    \E i \in 1..2 :
        \/ StepHash(i)
        \/ StepMkdir(i)
        \/ StepOpen(i)
        \/ StepWrite(i)

SpecConc == InitConc /\ [][NextConc]_vars

\* C9: two processes that put the same payload with no lock: whatever the
\* interleaving of their steps, a process that has finished returned Ok, both
\* return the same fingerprint, and once both have finished the store holds
\* exactly one object file, at the derived path, which decompresses to the
\* payload.
C9_ConcurrentPut ==
    procs[1].content = procs[2].content =>
        /\ \A i \in 1..2 : procs[i].pc = "done" => procs[i].out.st = "ok"
        /\ (procs[1].pc = "done" /\ procs[2].pc = "done") =>
              /\ procs[1].out = procs[2].out
              /\ Len(procs[1].out.val) = SHA1_LENGTH
              /\ DOMAIN objFiles =
                    {<<SubSeq(procs[1].out.val, 1, 2),
                       SubSeq(procs[1].out.val, 3, SHA1_LENGTH)>>}
              /\ \A path \in DOMAIN objFiles :
                    Decompress(objFiles[path]) = Ok(procs[1].content)

\* C9 witness: both processes have finished a put of the same non-empty payload.
C9_Witness ==
    /\ procs[1].content = procs[2].content
    /\ procs[1].content # <<>>
    /\ procs[1].pc = "done"
    /\ procs[2].pc = "done"

\* An interleaving of two writers: one process has truncated the file the
\* other has already written in full.
C9_TruncatedUnderWriter ==
    /\ procs[1].content = procs[2].content
    /\ procs[1].pc = "done"
    /\ procs[2].pc = "write"
    /\ objFiles[git_object_path(procs[1].hash)] = <<>>

----------------------------------------------------------------------------
(* The working directory and the commands: commands/*.rs, tree.rs, commit.rs *)

FileNode(content, exec, readable) ==
    [kind |-> "file", content |-> content, exec |-> exec, readable |-> readable]

DirNode == [kind |-> "dir", content |-> <<>>, exec |-> TRUE, readable |-> TRUE]

SymlinkNode == [kind |-> "symlink", content |-> <<>>, exec |-> TRUE, readable |-> TRUE]

\* The name of the repository directory, ".git".
DotGit == <<46, 103, 105, 116>>

\* Working directories, as path |-> node (a path is a sequence of names).
\*   TreeExample: d/ with the file d/f ("x"), and the file e ("hi\n")
\*   TreeMixed:   d/ with the file d/a ("a\0b"), the executable d/b ("a ") and
\*                the symlink d/s
\*   TreeEmpty:   the empty directory d and the file c (the byte 0xff)
\*   TreeLocked:  d/ with the unreadable file d/f, and the empty file a
\*   TreePartial: d/ with the unreadable file d/f, and the empty directory g
\*   TreeBare:    nothing
TreeExample ==
    (<<<<100>>>> :> DirNode)
        @@ (<<<<100>>, <<102>>>> :> FileNode(<<120>>, FALSE, TRUE))
        @@ (<<<<101>>>> :> FileNode(<<104, 105, 10>>, FALSE, TRUE))

TreeMixed ==
    (<<<<100>>>> :> DirNode)
        @@ (<<<<100>>, <<97>>>> :> FileNode(<<97, 0, 98>>, FALSE, TRUE))
        @@ (<<<<100>>, <<98>>>> :> FileNode(<<97, 32>>, TRUE, TRUE))
        @@ (<<<<100>>, <<115>>>> :> SymlinkNode)

TreeEmpty ==
    (<<<<100>>>> :> DirNode)
        @@ (<<<<99>>>> :> FileNode(<<255>>, FALSE, TRUE))

TreeLocked ==
    (<<<<100>>>> :> DirNode)
        @@ (<<<<100>>, <<102>>>> :> FileNode(<<120>>, FALSE, FALSE))
        @@ (<<<<97>>>> :> FileNode(<<>>, FALSE, TRUE))

TreePartial ==
    (<<<<100>>>> :> DirNode)
        @@ (<<<<100>>, <<102>>>> :> FileNode(<<120>>, FALSE, FALSE))
        @@ (<<<<103>>>> :> DirNode)

TreeBare == EmptyFiles

WorkTrees == {TreeExample, TreeMixed, TreeEmpty, TreeLocked, TreePartial, TreeBare}

\* fs::read_dir(path): the names in the directory.  The order in which the
\* iterator yields them is the file system's: WriteTreeStep takes any of them.
\* The repository directory is an entry of the root once it exists.
Listing(path) ==
    {p[Len(p)] : p \in {q \in DOMAIN worktree :
                           Len(q) = Len(path) + 1 /\ SubSeq(q, 1, Len(path)) = path}}
        \cup (IF path = <<>> /\ ".git" \in layout THEN {DotGit} ELSE {})

\* The fingerprints of the object files in the store.
StoredHashes == {p[1] \o p[2] : p \in DOMAIN objFiles}

\* A fingerprint of nothing the model stores: forty times the digit 0.
AbsentHash == [i \in 1..SHA1_LENGTH |-> 48]

Init ==
    /\ layout = {}
    /\ objDirs = {}
    /\ objFiles = EmptyFiles
    /\ worktree \in WorkTrees
    /\ result = NoResult
    /\ putLog = {}
    /\ walk = <<>>
    /\ procs = <<>>
    /\ codec = NoResult

CmdUnchanged == UNCHANGED <<worktree, procs, codec>>

Log(log, content, out) ==
    IF out.st = "ok" THEN log \cup {[payload |-> content, hash |-> out.val]} ELSE log

\* commands/init.rs, between two commands.
CmdInit ==
    /\ walk = <<>>
    /\ InitRepo

\* commands/hash_object.rs: read the file, frame it as a blob, print the hash
\* of the payload, with -w after writing it to the store.
HashObject(write, file_path) ==
    /\ walk = <<>>
    /\ IF file_path \notin DOMAIN worktree
          \/ worktree[file_path].kind # "file" \/ ~worktree[file_path].readable
       THEN /\ result' = [op |-> "hash_object", arg |-> file_path, out |-> Err("IO")]
            /\ UNCHANGED <<layout, objDirs, objFiles, putLog>>
       ELSE LET object_content == create_blob_object(worktree[file_path].content)
                w == write_git_object(FS, object_content)
            IN  IF write
                THEN /\ SetFS(w.fs)
                     /\ result' = [op |-> "hash_object", arg |-> file_path, out |-> w.out]
                     /\ putLog' = Log(putLog, object_content, w.out)
                ELSE /\ result' = [op |-> "hash_object", arg |-> file_path,
                                   out |-> Ok(calculate_object_hash(object_content))]
                     /\ UNCHANGED <<layout, objDirs, objFiles, putLog>>
    /\ UNCHANGED walk
    /\ CmdUnchanged

\* commands/cat_file.rs: with -p, fetch the object and print its body;
\* without -p nothing is read and nothing printed.
cat_file_run(files, pretty_print, object_hash) ==
    IF ~pretty_print THEN Ok(<<>>)
    ELSE LET content == read_git_object(files, object_hash)
         IN  IF content.st # "ok" THEN content ELSE cat_file_print(content.val)

CatFile(pretty_print, object_hash) ==
    /\ walk = <<>>
    /\ result' = [op |-> "cat_file", arg |-> object_hash,
                  out |-> cat_file_run(objFiles, pretty_print, object_hash),
                  pretty |-> pretty_print]
    /\ UNCHANGED <<layout, objDirs, objFiles, putLog, walk>>
    /\ CmdUnchanged

\* display_tree_entries: one line per entry, the name, or
\* "<mode> <type> <sha1>\t<name>".
display_tree_entries(entries, name_only) ==
    [i \in 1..Len(entries) |->
        IF name_only THEN entries[i].name
        ELSE FileMode_as_str(entries[i].mode) \o <<32>>
                \o (IF entries[i].object_type = "tree"
                    THEN <<116, 114, 101, 101>> ELSE <<98, 108, 111, 98>>)
                \o <<32>> \o entries[i].sha1 \o <<9>> \o entries[i].name]

\* commands/ls_tree.rs
ls_tree_run(files, tree_sha, name_only) ==
    LET tree_content == read_git_object(files, tree_sha)
    IN  IF tree_content.st # "ok" THEN tree_content
        ELSE LET entries == parse_tree_entries(tree_content.val)
             IN  IF entries.st # "ok" THEN entries
                 ELSE Ok(display_tree_entries(entries.val, name_only))

LsTree(tree_sha, name_only) ==
    /\ walk = <<>>
    /\ result' = [op |-> "ls_tree", arg |-> tree_sha,
                  out |-> ls_tree_run(objFiles, tree_sha, name_only)]
    /\ UNCHANGED <<layout, objDirs, objFiles, putLog, walk>>
    /\ CmdUnchanged

Running == [st |-> "running", kind |-> "", val |-> <<>>]

\* The frame of one call of write_tree: the directory, the entries read_dir
\* has not yielded yet, and the local vector `entries`.
Frame(path) == [path |-> path, todo |-> Listing(path), entries |-> <<>>]

Top == walk[Len(walk)]

WriteTreeResult(out) == [op |-> "write_tree", arg |-> <<>>, out |-> out]

\* commands/write_tree.rs: write_tree("."), up to the first read_dir.
WriteTreeStart ==
    /\ walk = <<>>
    /\ walk' = <<Frame(<<>>)>>
    /\ result' = WriteTreeResult(Running)
    /\ UNCHANGED <<layout, objDirs, objFiles, putLog>>
    /\ CmdUnchanged

\* A loop that passes over a file it cannot read instead of returning the error.
WriteTreeStep_lenient(name) ==
    /\ walk # <<>>
    /\ name \in Top.todo
    /\ LET path == Top.path \o <<name>>
           rest == [walk EXCEPT ![Len(walk)].todo = @ \ {name}]
       IN  IF name = DotGit \/ worktree[path].kind = "symlink"
              \/ (worktree[path].kind = "file" /\ ~worktree[path].readable)
           THEN /\ walk' = rest
                /\ UNCHANGED <<layout, objDirs, objFiles, putLog, result>>
           ELSE IF worktree[path].kind = "dir"
           THEN /\ walk' = Append(rest, Frame(path))
                /\ UNCHANGED <<layout, objDirs, objFiles, putLog, result>>
           ELSE LET blob_content == create_blob_object(worktree[path].content)
                    w == write_git_object(FS, blob_content)
                    mode == IF worktree[path].exec THEN "ExecutableFile"
                            ELSE "RegularFile"
                IN  /\ SetFS(w.fs)
                    /\ putLog' = Log(putLog, blob_content, w.out)
                    /\ IF w.out.st # "ok"
                       THEN /\ walk' = <<>>
                            /\ result' = WriteTreeResult(w.out)
                       ELSE /\ walk' = [rest EXCEPT ![Len(walk)].entries =
                                           Append(@, <<mode, name, w.out.val>>)]
                            /\ UNCHANGED result
    /\ CmdUnchanged

\* One turn of the for loop of write_tree, on any entry not yet visited.
WriteTreeStep(name) ==
    /\ walk # <<>>
    /\ name \in Top.todo
    /\ LET path == Top.path \o <<name>>
           rest == [walk EXCEPT ![Len(walk)].todo = @ \ {name}]
       IN  IF name = DotGit \/ worktree[path].kind = "symlink"
           THEN \* `continue`, or neither is_file() nor is_dir()
                /\ walk' = rest
                /\ UNCHANGED <<layout, objDirs, objFiles, putLog, result>>
           ELSE IF worktree[path].kind = "dir"
           THEN \* write_tree(&path)?: the callee's read_dir
                /\ walk' = Append(rest, Frame(path))
                /\ UNCHANGED <<layout, objDirs, objFiles, putLog, result>>
           ELSE IF ~worktree[path].readable
           THEN \* fs::read(&path)? fails: every caller returns the error
                /\ walk' = <<>>
                /\ result' = WriteTreeResult(Err("IO"))
                /\ UNCHANGED <<layout, objDirs, objFiles, putLog>>
           ELSE LET blob_content == create_blob_object(worktree[path].content)
                    w == write_git_object(FS, blob_content)
                    mode == IF worktree[path].exec THEN "ExecutableFile"
                            ELSE "RegularFile"
                IN  /\ SetFS(w.fs)
                    /\ putLog' = Log(putLog, blob_content, w.out)
                    /\ IF w.out.st # "ok"
                       THEN /\ walk' = <<>>
                            /\ result' = WriteTreeResult(w.out)
                       ELSE /\ walk' = [rest EXCEPT ![Len(walk)].entries =
                                           Append(@, <<mode, name, w.out.val>>)]
                            /\ UNCHANGED result
    /\ CmdUnchanged

\* write_tree from the sort to its return: sort, build, store the tree, and
\* hand the hash to the caller (the parent directory's loop, or the command).
WriteTreeFinish ==
    /\ walk # <<>>
    /\ Top.todo = {}
    /\ LET tree_content == build_tree_content(SortByName(Top.entries))
           w == IF tree_content.st = "ok"
                THEN write_git_object(FS, tree_content.val)
                ELSE [fs |-> FS, out |-> tree_content]
       IN  /\ SetFS(w.fs)
           /\ putLog' = IF tree_content.st = "ok"
                        THEN Log(putLog, tree_content.val, w.out) ELSE putLog
           /\ IF w.out.st # "ok"
              THEN /\ walk' = <<>>
                   /\ result' = WriteTreeResult(w.out)
              ELSE IF Len(walk) = 1
              THEN /\ walk' = <<>>
                   /\ result' = WriteTreeResult(w.out)
              ELSE /\ walk' = [SubSeq(walk, 1, Len(walk) - 1)
                                  EXCEPT ![Len(walk) - 1].entries =
                                      Append(@, <<"Directory", Top.path[Len(Top.path)],
                                                  w.out.val>>)]
                   /\ UNCHANGED result
    /\ CmdUnchanged

\* The text of a commit with the parent line after the author line.
commit_content_parent_late(tree_hash, parent_hash, message, timestamp) ==
    LET who == <<72, 117, 103, 111, 32, 60>>
                  \o <<116, 101, 115, 116, 64, 101, 120, 97, 109, 112, 108, 101,
                       46, 99, 111, 109>>
                  \o <<62, 32>> \o Dec(timestamp) \o <<32, 43, 48, 48, 48, 48, 10>>
    IN  <<116, 114, 101, 101, 32>> \o tree_hash \o <<10>>
            \o <<97, 117, 116, 104, 111, 114, 32>> \o who
            \o (IF parent_hash = <<>> THEN <<>>
                ELSE <<112, 97, 114, 101, 110, 116, 32>> \o parent_hash[1] \o <<10>>)
            \o <<99, 111, 109, 109, 105, 116, 116, 101, 114, 32>> \o who
            \o <<10>> \o message \o <<10>>

\* commit.rs lines 17-44: "tree <hash>\n", "parent <hash>\n" when there is a
\* parent (parent_hash is <<>> for None, <<p>> for Some(p)), the author and
\* committer lines "<keyword> Hugo <test@example.com> <seconds> +0000\n", an
\* empty line, the message, "\n".
commit_content(tree_hash, parent_hash, message, timestamp) ==
    LET who == <<72, 117, 103, 111, 32, 60>>
                  \o <<116, 101, 115, 116, 64, 101, 120, 97, 109, 112, 108, 101,
                       46, 99, 111, 109>>
                  \o <<62, 32>> \o Dec(timestamp) \o <<32, 43, 48, 48, 48, 48, 10>>
    IN  <<116, 114, 101, 101, 32>> \o tree_hash \o <<10>>
            \o (IF parent_hash = <<>> THEN <<>>
                ELSE <<112, 97, 114, 101, 110, 116, 32>> \o parent_hash[1] \o <<10>>)
            \o <<97, 117, 116, 104, 111, 114, 32>> \o who
            \o <<99, 111, 109, 109, 105, 116, 116, 101, 114, 32>> \o who
            \o <<10>> \o message \o <<10>>

\* commit.rs lines 46-50: "commit <len>\0" and the text.
commit_object(tree_hash, parent_hash, message, timestamp) ==
    LET content == commit_content(tree_hash, parent_hash, message, timestamp)
    IN  <<99, 111, 109, 109, 105, 116, 32>> \o Dec(Len(content)) \o <<0>> \o content

\* SystemTime::now().duration_since(UNIX_EPOCH): the seconds since the epoch,
\* or an error when the clock is set before it.
Clocks == {Ok(1700000000), Ok(0), Err("Clock")}

\* Messages: "m", "parent x", "m\n\nn", and the empty message.
Messages == {<<109>>, <<112, 97, 114, 101, 110, 116, 32, 120>>, <<109, 10, 10, 110>>, <<>>}

IsTreePayload(content) ==
    Len(content) >= 5 /\ SubSeq(content, 1, 5) = <<116, 114, 101, 101, 32>>

IsCommitPayload(content) ==
    Len(content) >= 7 /\ SubSeq(content, 1, 7) = <<99, 111, 109, 109, 105, 116, 32>>

\* commands/commit_tree.rs and create_commit_object: build the commit, store
\* it, print its hash.  Neither hash is validated.
CommitTree(tree_sha, parent_sha, message, clock) ==
    /\ walk = <<>>
    /\ Cardinality({e \in putLog : IsCommitPayload(e.payload)}) < MaxCommits
    /\ LET arg == [tree |-> tree_sha, parent |-> parent_sha, message |-> message,
                   clock |-> clock]
       IN  IF clock.st # "ok"
           THEN /\ result' = [op |-> "commit_tree", arg |-> arg, out |-> clock]
                /\ UNCHANGED <<layout, objDirs, objFiles, putLog>>
           ELSE LET object_content ==
                        commit_object(tree_sha, parent_sha, message, clock.val)
                    w == write_git_object(FS, object_content)
                IN  /\ SetFS(w.fs)
                    /\ putLog' = Log(putLog, object_content, w.out)
                    /\ result' = [op |-> "commit_tree", arg |-> arg, out |-> w.out]
    /\ UNCHANGED walk
    /\ CmdUnchanged

\* The arguments given on the command line: paths of the working directory
\* and one that does not exist; hashes of stored objects, one that is not
\* stored and one too short to be a hash.
PathArgs == DOMAIN worktree \cup {<<<<122>>>>}

HashArgs == StoredHashes \cup {AbsentHash, <<97>>}

\* commit_tree is run on a tree that write_tree has stored, with no parent or
\* with a stored commit as parent.  (SpecCodec runs it on other arguments.)
TreeArgs == {e.hash : e \in {x \in putLog : IsTreePayload(x.payload)}}

ParentArgs == {<<>>} \cup {<<e.hash>> : e \in {x \in putLog : IsCommitPayload(x.payload)}}

Next ==
    \/ CmdInit
    \/ \E write \in BOOLEAN, file_path \in PathArgs : HashObject(write, file_path)
    \/ \E pretty_print \in BOOLEAN, object_hash \in HashArgs :
          CatFile(pretty_print, object_hash)
    \/ \E tree_sha \in HashArgs, name_only \in BOOLEAN : LsTree(tree_sha, name_only)
    \/ WriteTreeStart
    \/ \E name \in (IF walk = <<>> THEN {} ELSE Top.todo) : WriteTreeStep(name)
    \/ WriteTreeFinish
    \/ \E tree_sha \in TreeArgs, parent_sha \in ParentArgs :
          CommitTree(tree_sha, parent_sha, <<109>>, Ok(1700000000))

Spec == Init /\ [][Next]_vars

----------------------------------------------------------------------------
(* Properties of the commands *)

FilePaths == {path \in DOMAIN worktree : worktree[path].kind = "file"}

\* C5: cat_file -p on the fingerprint of a stored blob that create_blob_object
\* framed from the bytes b of a file prints exactly b.
C5_CatFilePrintsBody ==
    (result.op = "cat_file" /\ result.pretty) =>
        \A path \in FilePaths :
            (/\ result.arg = calculate_sha1(create_blob_object(worktree[path].content))
             /\ \E e \in putLog : e.hash = result.arg)
                => result.out = Ok(worktree[path].content)

\* The bodies cat_file does print exactly: text with no null byte and no
\* white space at its end.
CatFilePrintsPlainText ==
    (result.op = "cat_file" /\ result.pretty) =>
        \A path \in FilePaths :
            (/\ result.arg = calculate_sha1(create_blob_object(worktree[path].content))
             /\ \E e \in putLog : e.hash = result.arg
             /\ IsUtf8(worktree[path].content)
             /\ Position(worktree[path].content, 0) = 0
             /\ TrimEnd(worktree[path].content) = worktree[path].content)
                => result.out = Ok(worktree[path].content)

StrictlyAscending(names) ==
    \A i \in 1..(Len(names) - 1) : LexLess(names[i], names[i + 1])

NamesOf(entries) == [i \in 1..Len(entries) |-> entries[i].name]

\* C7: every tree object write_tree has stored, the root's and every nested
\* directory's, parses and lists its entries in ascending byte-wise order of
\* name; for the directory with d/ (holding f) and the file e, the root tree
\* is exactly [d, e], d a directory entry whose fingerprint names a stored
\* tree object that parses to [f].
C7_TreesSorted ==
    /\ \A e \in putLog :
          IsTreePayload(e.payload) =>
              /\ read_git_object(objFiles, e.hash) = Ok(e.payload)
              /\ parse_tree_entries(e.payload).st = "ok"
              /\ StrictlyAscending(NamesOf(parse_tree_entries(e.payload).val))
    /\ (worktree = TreeExample /\ result.op = "write_tree" /\ result.out.st = "ok") =>
          LET root == parse_tree_entries(read_git_object(objFiles, result.out.val).val)
          IN  /\ root.st = "ok"
              /\ NamesOf(root.val) = <<<<100>>, <<101>>>>
              /\ root.val[1].mode = "Directory"
              /\ root.val[2].mode = "RegularFile"
              /\ ls_tree_run(objFiles, root.val[1].sha1, TRUE) = Ok(<<<<102>>>>)

\* C7 witness: write_tree has returned the root tree of the directory with
\* d/f and e.
C7_Witness ==
    /\ worktree = TreeExample
    /\ result.op = "write_tree"
    /\ result.out.st = "ok"
    /\ walk = <<>>

\* A nested directory with two files was stored as a tree of two entries.
C7_WitnessNested ==
    /\ worktree = TreeMixed
    /\ result.op = "write_tree"
    /\ result.out.st = "ok"
    /\ \E e \in putLog :
          /\ IsTreePayload(e.payload)
          /\ Len(parse_tree_entries(e.payload).val) = 2

----------------------------------------------------------------------------
(* The codecs and the builders as functions of their input (SpecCodec) *)

\* A hex string in capitals: hex_to_bytes accepts it, format!("{:02x}") never
\* produces it.
UpperHex(hex) == [i \in 1..Len(hex) |-> IF hex[i] >= 97 THEN hex[i] - 32 ELSE hex[i]]

\* Names are path segments: no null byte, no slash.  "a" and "b c".
EntryNames == {<<97>>, <<98, 32, 99>>}

EntryHashes == {calculate_sha1(<<>>), UpperHex(calculate_sha1(<<97>>))}

Entries == FileModes \X EntryNames \X EntryHashes

EntrySeqs == SeqsUpTo(Entries, MaxEntries)

\* Byte strings handed to the readers as fetched objects, well framed or not:
\* "tree 0\0", "tree 5\0", "blob 0\0", "x 0\0", "blob 1", "blob 1\0a",
\* "blob 3\0a", "blob 2\0a\n", "blob 3\0a\0b", "blob 1\0\xff", "commit 1\0a",
\* and a tree of one entry under the header "tree 1".
RawPayloads ==
    { <<116, 114, 101, 101, 32, 48, 0>>,
      <<116, 114, 101, 101, 32, 53, 0>>,
      <<98, 108, 111, 98, 32, 48, 0>>,
      <<120, 32, 48, 0>>,
      <<98, 108, 111, 98, 32, 49>>,
      <<98, 108, 111, 98, 32, 49, 0, 97>>,
      <<98, 108, 111, 98, 32, 51, 0, 97>>,
      <<98, 108, 111, 98, 32, 50, 0, 97, 10>>,
      <<98, 108, 111, 98, 32, 51, 0, 97, 0, 98>>,
      <<98, 108, 111, 98, 32, 49, 0, 255>>,
      <<99, 111, 109, 109, 105, 116, 32, 49, 0, 97>>,
      <<116, 114, 101, 101, 32, 49, 0>>
          \o TreeBody(<<<<"RegularFile", <<97>>, calculate_sha1(<<>>)>>>>).val }

CodecUnchanged ==
    UNCHANGED <<layout, objDirs, objFiles, worktree, result, putLog, walk, procs>>

CodecInput(kind, x) ==
    [op |-> kind, arg |-> x, out |-> Ok(<<>>), encoded |-> FALSE, entries |-> <<>>]

\* Bodies of blobs: "", "a", "a\n", "a\0b", the byte 0xff.
BlobBodies == {<<>>, <<97>>, <<97, 10>>, <<97, 0, 98>>, <<255>>}

CommitArgs ==
    [tree : {AbsentHash, calculate_sha1(<<>>)},
     parent : {<<>>, <<AbsentHash>>},
     message : Messages,
     clock : Clocks]

\* The input of a run: a sequence of entries to encode, the bytes of a fetched
\* object to read, the body of a blob, or the arguments of a commit.
InitCodec ==
    /\ layout = {}
    /\ objDirs = {}
    /\ objFiles = EmptyFiles
    /\ worktree = EmptyFiles
    /\ result = NoResult
    /\ putLog = {}
    /\ walk = <<>>
    /\ procs = <<>>
    /\ \/ \E entries \in EntrySeqs : codec = CodecInput("entries", entries)
       \/ \E content \in RawPayloads : codec = CodecInput("bytes", content)
       \/ \E body \in BlobBodies : codec = CodecInput("body", body)
       \/ \E args \in CommitArgs : codec = CodecInput("commit", args)

BuildBlob ==
    /\ codec.op = "body"
    /\ codec' = [op |-> "create_blob_object", arg |-> codec.arg,
                 out |-> Ok(create_blob_object(codec.arg)),
                 encoded |-> FALSE, entries |-> <<>>]
    /\ CodecUnchanged

BuildCommit ==
    /\ codec.op = "commit"
    /\ CommitTree(codec.arg.tree, codec.arg.parent, codec.arg.message, codec.arg.clock)

BuildTree ==
    /\ codec.op = "entries"
    /\ codec' = [op |-> "build_tree_content", arg |-> codec.arg,
                 out |-> build_tree_content(codec.arg),
                 encoded |-> FALSE, entries |-> <<>>]
    /\ CodecUnchanged

\* parse_tree_entries on the bytes build_tree_content has just returned.
ParseBuilt ==
    /\ codec.op = "build_tree_content"
    /\ codec.out.st = "ok"
    /\ codec' = [op |-> "parse_tree_entries", arg |-> codec.out.val,
                 out |-> parse_tree_entries(codec.out.val),
                 encoded |-> TRUE, entries |-> codec.arg]
    /\ CodecUnchanged

\* parse_tree_entries on a fetched object, as ls_tree calls it.
ParseRaw ==
    /\ codec.op = "bytes"
    /\ codec' = [op |-> "parse_tree_entries", arg |-> codec.arg,
                 out |-> parse_tree_entries(codec.arg),
                 encoded |-> FALSE, entries |-> <<>>]
    /\ CodecUnchanged

\* The unframing of cat_file on a fetched object.
PrintRaw ==
    /\ codec.op = "bytes"
    /\ codec' = [op |-> "cat_file", arg |-> codec.arg,
                 out |-> cat_file_print(codec.arg),
                 encoded |-> FALSE, entries |-> <<>>]
    /\ CodecUnchanged

NextCodec ==
    \/ BuildTree
    \/ ParseBuilt
    \/ ParseRaw
    \/ PrintRaw
    \/ BuildBlob
    \/ BuildCommit

SpecCodec == InitCodec /\ [][NextCodec]_vars

SortedNames(names) == \A i \in 1..(Len(names) - 1) : LexLeq(names[i], names[i + 1])

\* C4: decoding the encoding of a sequence of entries returns as many entries,
\* each with the mode, the name and the fingerprint of the entry at the same
\* place of the input (the fingerprint's hex text itself when it is in lower
\* case, as the hasher renders it); so a sorted input decodes sorted and an
\* unsorted input decodes in the order given.
C4_TreeRoundTrip ==
    (codec.op = "parse_tree_entries" /\ codec.encoded) =>
        /\ codec.out.st = "ok"
        /\ Len(codec.out.val) = Len(codec.entries)
        /\ \A i \in 1..Len(codec.entries) :
              /\ codec.out.val[i].mode = codec.entries[i][1]
              /\ codec.out.val[i].name = codec.entries[i][2]
              /\ hex_to_bytes(codec.out.val[i].sha1) = hex_to_bytes(codec.entries[i][3])
              /\ codec.entries[i][3] = calculate_sha1(<<>>) =>
                    codec.out.val[i].sha1 = codec.entries[i][3]
        /\ SortedNames([i \in 1..Len(codec.entries) |-> codec.entries[i][2]])
              <=> SortedNames([i \in 1..Len(codec.out.val) |-> codec.out.val[i].name])

\* C4 witness: an unsorted input of two entries, a directory and a file, was
\* encoded and decoded.
C4_Witness ==
    /\ codec.op = "parse_tree_entries"
    /\ codec.encoded
    /\ codec.out.st = "ok"
    /\ Len(codec.entries) = 2
    /\ codec.entries[1][1] = "Directory"
    /\ codec.entries[2][1] = "RegularFile"
    /\ LexLess(codec.entries[2][2], codec.entries[1][2])

\* The header of a payload as the object codec defines it: the text before
\* the first null byte is "<type> <length>", the type one of blob, tree,
\* commit, the length the number of bytes after the null byte.
HasNoNull(content) == Position(content, 0) = 0

HeaderOf(content) == SubSeq(content, 1, Position(content, 0) - 1)

TypeUnknown(content) ==
    LET header == HeaderOf(content)
        sp == Position(header, 32)
    IN  \/ sp = 0
        \/ SubSeq(header, 1, sp - 1) \notin
              {<<98, 108, 111, 98>>, <<116, 114, 101, 101>>,
               <<99, 111, 109, 109, 105, 116>>}

LengthWrong(content) ==
    LET header == HeaderOf(content)
        sp == Position(header, 32)
        digits == SubSeq(header, sp + 1, Len(header))
    IN  \/ digits = <<>>
        \/ \E i \in 1..Len(digits) : ~IsDigit(digits[i])
        \/ ParseDec(digits) # Len(content) - Position(content, 0)

Malformed(content) ==
    \/ HasNoNull(content)
    \/ TypeUnknown(content)
    \/ LengthWrong(content)

\* C6: a reader that unframes a fetched object (parse_tree_entries for
\* ls_tree, cat_file) fails with a format error when the payload has no null
\* byte, an unknown type token, or a declared length that is not the number of
\* bytes after the null byte.
C6_UnframeRejects ==
    (codec.op \in {"parse_tree_entries", "cat_file"} /\ ~codec.encoded
        /\ Malformed(codec.arg)) => codec.out = Err("Format")

\* What the readers do check: a payload with no null byte is rejected.
NoNullRejected ==
    (codec.op \in {"parse_tree_entries", "cat_file"} /\ HasNoNull(codec.arg))
        => codec.out = Err("Format")

\* The text of an object after its header.
BodyOf(payload) == SubSeq(payload, Position(payload, 0) + 1, Len(payload))

\* The lines of a text: the pieces between its line feeds.
RECURSIVE SplitLines(_)
SplitLines(text) ==
    LET lf == Position(text, 10)
    IN  IF lf = 0 THEN <<text>>
        ELSE <<SubSeq(text, 1, lf - 1)>> \o SplitLines(SubSeq(text, lf + 1, Len(text)))

StartsWith(text, prefix) ==
    Len(text) >= Len(prefix) /\ SubSeq(text, 1, Len(prefix)) = prefix

Drop(text, n) == SubSeq(text, n + 1, Len(text))

RECURSIVE LinesLength(_, _)
LinesLength(lines, n) ==
    IF n = 0 THEN 0 ELSE LinesLength(lines, n - 1) + Len(lines[n]) + 1

KwTree == <<116, 114, 101, 101, 32>>
KwParent == <<112, 97, 114, 101, 110, 116, 32>>
KwAuthor == <<97, 117, 116, 104, 111, 114, 32>>
KwCommitter == <<99, 111, 109, 109, 105, 116, 116, 101, 114, 32>>

\* C8: the body of the commit that create_commit_object stores is, line by
\* line: "tree T"; "parent P" exactly when a parent was given; an author line
\* "author <name> <email> <seconds> <timezone>"; a committer line with the
\* same text after its keyword; an empty line; then the message and a line
\* feed, which end the payload.  With no parent none of the lines before the
\* empty line is a parent line.
C8_CommitBody ==
    (result.op = "commit_tree" /\ result.out.st = "ok") =>
        LET payload == read_git_object(objFiles, result.out.val)
            body == BodyOf(payload.val)
            lines == SplitLines(body)
            given == result.arg.parent # <<>>
            k == IF given THEN 3 ELSE 2
        IN  /\ payload.st = "ok"
            /\ Len(lines) >= k + 3
            /\ lines[1] = KwTree \o result.arg.tree
            /\ given => lines[2] = KwParent \o result.arg.parent[1]
            /\ ~given => \A i \in 1..(k + 1) : ~StartsWith(lines[i], KwParent)
            /\ StartsWith(lines[k], KwAuthor)
            /\ StartsWith(lines[k + 1], KwCommitter)
            /\ Drop(lines[k], Len(KwAuthor)) = Drop(lines[k + 1], Len(KwCommitter))
            /\ Drop(lines[k], Len(KwAuthor)) =
                  <<72, 117, 103, 111, 32, 60, 116, 101, 115, 116, 64, 101, 120, 97,
                    109, 112, 108, 101, 46, 99, 111, 109, 62, 32>>
                      \o Dec(result.arg.clock.val) \o <<32, 43, 48, 48, 48, 48>>
            /\ lines[k + 2] = <<>>
            /\ Drop(body, LinesLength(lines, k + 2)) = result.arg.message \o <<10>>

\* C8 witness: a commit with no parent whose message has several lines.
C8_Witness ==
    /\ result.op = "commit_tree"
    /\ result.out.st = "ok"
    /\ result.arg.parent = <<>>
    /\ result.arg.message = <<109, 10, 10, 110>>

\* A commit with a parent was stored as well.
C8_WitnessParent ==
    /\ result.op = "commit_tree"
    /\ result.out.st = "ok"
    /\ result.arg.parent # <<>>

\* '<type> <n>' + null byte + body, n the decimal number of bytes of the body.
FramedAs(payload, type) ==
    LET null_pos == Position(payload, 0)
    IN  /\ null_pos > 0
        /\ SubSeq(payload, 1, null_pos) =
              type \o <<32>> \o Dec(Len(payload) - null_pos) \o <<0>>

\* C10: the payloads of the three builders have the form '<type> <n>\0body'
\* with n the number of bytes after the first null byte: the blob's body is
\* the file's bytes, and the size build_tree_content sums entry by entry is
\* the number of bytes it appends.
C10_PayloadFramed ==
    /\ codec.op = "create_blob_object" =>
          /\ FramedAs(codec.out.val, <<98, 108, 111, 98>>)
          /\ BodyOf(codec.out.val) = codec.arg
    /\ (codec.op = "build_tree_content" /\ codec.out.st = "ok") =>
          /\ FramedAs(codec.out.val, <<116, 114, 101, 101>>)
          /\ Len(BodyOf(codec.out.val)) = TreeSize(codec.arg)
    /\ \A e \in putLog : FramedAs(e.payload, <<99, 111, 109, 109, 105, 116>>)

\* C10 witness: a tree of two entries has been built.
C10_Witness ==
    /\ codec.op = "build_tree_content"
    /\ codec.out.st = "ok"
    /\ Len(codec.arg) = 2

\* A blob with a null byte in its body and a commit have been built as well.
C10_WitnessBlob ==
    /\ codec.op = "create_blob_object"
    /\ codec.arg = <<97, 0, 98>>

C10_WitnessCommit == putLog # {} /\ result.op = "commit_tree"

----------------------------------------------------------------------------
(* The tree of a directory against the directory *)

\* The immediate entries of a directory of the working directory.
Children(path) ==
    {q \in DOMAIN worktree : Len(q) = Len(path) + 1 /\ SubSeq(q, 1, Len(path)) = path}

\* The entry a tree must hold for a node: a file gives a blob with the mode of
\* its permission bits, a directory a directory entry, a symbolic link a blob.
EntryFits(entry, node) ==
    IF node.kind = "file"
    THEN /\ entry.object_type = "blob"
         /\ entry.mode = (IF node.exec THEN "ExecutableFile" ELSE "RegularFile")
    ELSE IF node.kind = "dir"
    THEN entry.mode = "Directory" /\ entry.object_type = "tree"
    ELSE entry.object_type = "blob"

\* The stored object `hash` is the tree of the directory `path`: one entry per
\* immediate entry (symbolic links counted only when `links`), none for .git,
\* and every directory entry names the tree of that subdirectory.
RECURSIVE TreeMirrors(_, _, _)
TreeMirrors(path, hash, links) ==
    LET payload == read_git_object(objFiles, hash)
        parsed == parse_tree_entries(payload.val)
        kids == {q \in Children(path) : links \/ worktree[q].kind # "symlink"}
    IN  /\ payload.st = "ok"
        /\ IsTreePayload(payload.val)
        /\ parsed.st = "ok"
        /\ Len(parsed.val) = Cardinality(kids)
        /\ \A i \in 1..Len(parsed.val) : parsed.val[i].name # DotGit
        /\ \A q \in kids :
              \E i \in 1..Len(parsed.val) :
                  /\ parsed.val[i].name = q[Len(q)]
                  /\ EntryFits(parsed.val[i], worktree[q])
                  /\ worktree[q].kind = "dir"
                        => TreeMirrors(q, parsed.val[i].sha1, links)

\* C11: the tree write_tree returns for a directory has exactly one entry per
\* immediate entry other than .git and none for .git: files as blobs with the
\* regular or the executable mode, subdirectories as directory entries (their
\* trees likewise), symbolic links as blob entries, and an empty directory as
\* a stored tree with no entry.
C11_TreeMirrorsDirectory ==
    (result.op = "write_tree" /\ result.out.st = "ok")
        => TreeMirrors(<<>>, result.out.val, TRUE)

\* What write_tree does store: the same, with no entry for a symbolic link.
TreeMirrorsButLinks ==
    (result.op = "write_tree" /\ result.out.st = "ok")
        => TreeMirrors(<<>>, result.out.val, FALSE)

\* write_tree has returned for a directory that holds .git and an empty
\* directory, whose tree is stored with no entry.
TreeOfEmptyDirectory ==
    /\ worktree = TreeEmpty
    /\ ".git" \in layout
    /\ result.op = "write_tree"
    /\ result.out.st = "ok"
    /\ \E e \in putLog : e.payload = <<116, 114, 101, 101, 32, 48, 0>>

----------------------------------------------------------------------------
(* The order in which write_tree stores objects *)

IsBlobPayload(content) ==
    Len(content) >= 5 /\ SubSeq(content, 1, 5) = <<98, 108, 111, 98, 32>>

\* The entries of a tree payload (none when it does not parse).
EntriesOf(payload) ==
    LET parsed == parse_tree_entries(payload)
    IN  IF parsed.st = "ok" THEN parsed.val ELSE <<>>

\* The object an entry names is in the store and of the entry's type.
EntryStored(entry, files) ==
    LET payload == read_git_object(files, entry.sha1)
    IN  /\ payload.st = "ok"
        /\ IF entry.object_type = "tree" THEN IsTreePayload(payload.val)
           ELSE IsBlobPayload(payload.val)

\* The payload lists the entries of the directory `path` by name
\* (symbolic links, which write_tree passes over, left out).
ListsDirectory(payload, path) ==
    {EntriesOf(payload)[i].name : i \in 1..Len(EntriesOf(payload))}
        = {q[Len(q)] : q \in {c \in Children(path) : worktree[c].kind # "symlink"}}

\* Every stored tree names only stored objects of the right type.
TreesClosed ==
    \A e \in putLog :
        IsTreePayload(e.payload) =>
            \A i \in 1..Len(EntriesOf(e.payload)) :
                EntryStored(EntriesOf(e.payload)[i], objFiles)

\* The directories in which a run fails, and their ancestors: every proper
\* prefix of the path of a file that cannot be read.
FailingDirs ==
    UNION {{SubSeq(q, 1, k) : k \in 0..(Len(q) - 1)} :
              q \in {f \in DOMAIN worktree :
                        worktree[f].kind = "file" /\ ~worktree[f].readable}}

\* No tree is stored for a directory in which the run fails or for an
\* ancestor of it.
NoTreeOfFailingDirs ==
    \A d \in FailingDirs :
        \A e \in putLog : IsTreePayload(e.payload) => ~ListsDirectory(e.payload, d)

\* The step that stores a tree finds, already in the store, the blob of every
\* file and the tree of every subdirectory of the directory it stores.
StoredAfterChildren ==
    \A e \in putLog' \ putLog :
        IsTreePayload(e.payload) =>
            /\ walk # <<>>
            /\ ListsDirectory(e.payload, Top.path)
            /\ \A i \in 1..Len(EntriesOf(e.payload)) :
                  EntryStored(EntriesOf(e.payload)[i], objFiles)
            /\ \A q \in Children(Top.path) :
                  /\ worktree[q].kind = "file" =>
                        calculate_sha1(create_blob_object(worktree[q].content))
                            \in StoredHashes
                  /\ worktree[q].kind = "dir" =>
                        \E t \in putLog :
                            /\ ListsDirectory(t.payload, q)
                            /\ t.hash \in StoredHashes
                            /\ \E i \in 1..Len(EntriesOf(e.payload)) :
                                  /\ EntriesOf(e.payload)[i].name = q[Len(q)]
                                  /\ EntriesOf(e.payload)[i].sha1 = t.hash

\* The step on which a run fails stores no tree and drops every pending call.
FailureStoresNoTree ==
    (result' # result /\ result'.op = "write_tree" /\ result'.out.st = "err") =>
        /\ walk' = <<>>
        /\ \A e \in putLog' \ putLog : ~IsTreePayload(e.payload)

\* C12: write_tree stores bottom-up.  At every point, also after a run that
\* failed part-way, every stored tree names only blobs and trees that are in
\* the store; a tree is stored only when the blobs of all files and the trees
\* of all subdirectories of its directory are already stored; and a failing
\* run stores no tree for the directory in which it fails nor for an ancestor.
C12_BottomUp ==
    /\ [](TreesClosed /\ NoTreeOfFailingDirs)
    /\ [][StoredAfterChildren /\ FailureStoresNoTree]_vars

\* C12 witness: a run has failed in d after it stored the tree of the
\* sibling directory g.
C12_Witness ==
    /\ worktree = TreePartial
    /\ result.op = "write_tree"
    /\ result.out.st = "err"
    /\ walk = <<>>
    /\ \E e \in putLog : IsTreePayload(e.payload)

\* A run is under way with the tree of a subdirectory stored and the root's
\* not yet.
C12_WitnessMidRun ==
    /\ worktree = TreeExample
    /\ Len(walk) = 1
    /\ \E e \in putLog : IsTreePayload(e.payload) /\ ListsDirectory(e.payload, <<<<100>>>>)
    /\ \A e \in putLog : IsTreePayload(e.payload) => ~ListsDirectory(e.payload, <<>>)

====
